---------------------------- MODULE Spec2Model ----------------------------
(***************************************************************************)
(* Model of the concurrent multi-writer BLF benchmark                      *)
(* (docs/examples/MultiWriterBenchmark.cpp): command-line parsing, output  *)
(* directory setup, the fan-out of one writer thread per file, the join    *)
(* barrier, the scan of the captured failures and the summary.             *)
(*                                                                         *)
(* argv holds argv[1..argc-1]; argv[0], the program name, is left out, so  *)
(* the loop index i of parseCommandLine is the index into argv here.       *)
(***************************************************************************)
EXTENDS Integers, Sequences, FiniteSets, TLC

\* ------------------------------------------------------------------ bounds
MaxArgs == 5
MaxFiles == 2
MaxMsgs == 2
MaxFairArgs == 4
MaxParseArgs == 4
MaxNameIndex == 120
MaxSeq == 2047
MaxMicroFrames == 2
MaxMicroBytes == 2

\* ------------------------------------------------- constants of the program
DefaultFileCount == 10
DefaultMessagesPerFile == 200000
DefaultQueueSize == 10000
BufferFactor == 16
payloadCount == 8
IdBase == 256
IdPeriod == 1792
ChannelWrap == 65535
ByteMask == 256
\* Defaults queried from a throwaway Vector::BLF::File instance.
LibDefaultLogContainerSize == 131072
LibCompressionThreadCount == 4

EXIT_SUCCESS == 0
EXIT_FAILURE == 1

NoError == [origin |-> -1, what |-> <<>>]
NoStatus == -1
\* file_write_benchmark.cpp: the second of its deadline, and the status of
\* a process ended by std::terminate (SIGABRT).
OneSecond == 1
Aborted == 134

VARIABLES
    argv,        \* the command line, argv[1..argc-1]
    mpc,         \* position of main
    options,     \* CommandLineOptions returned by parseCommandLine
    dirState,    \* what ensureDirectoryExists found or did
    index,       \* loop variable of main's current loop
    results,     \* std::vector<WriterResult> results
    errors,      \* std::vector<std::exception_ptr> errors
    threads,     \* std::vector<std::thread> threads: task index of each
    joined,      \* number of threads main has joined
    tpc,         \* position of each writer thread
    files,       \* per task: state of its output file and writer
    frames,      \* per task: the frames submitted to file.write, in order
    stdout,      \* what the program printed on std::cout
    stderr,      \* what the program printed on std::cerr
    exitStatus,  \* exit status of the process
    caught,      \* the exception main's handler caught, if any
    clock,       \* std::chrono::steady_clock
    overall,     \* main's overallStart and overallEnd
    timer,       \* per task: its start and end
    failLog,     \* the threads that captured a failure, in order of time
    slotWriters, \* per slot field and index: the threads that wrote it
    slotReads,   \* slots main has read: <<kind, index>>
    events,      \* per task: what its thread has done so far, in order
    probe,       \* arguments and value of the function under examination
    micro        \* state of the single-threaded micro-benchmark

vars == <<argv, mpc, options, dirState, index, results, errors, threads,
          joined, tpc, files, frames, stdout, stderr, exitStatus,
          caught, clock, overall, timer, failLog, slotWriters, slotReads,
          events, probe, micro>>

taskVars == <<results, errors, tpc, files, frames, timer, failLog,
              slotWriters, events>>

\* ------------------------------------------------------------- the tokens
HelpFlags == {"-h", "--help"}
ValueFlags == {"--files", "--messages", "--queue-size",
               "--uncompressed-bytes", "--log-container-bytes",
               "--compression-threads", "--output-dir"}
Digits == <<"0", "1", "2", "3", "4", "5", "6", "7", "8", "9">>

\* The command-line words the inputs are drawn from.
Tokens == {"-h", "--help", "--files", "--messages", "--bogus",
           "0", "1", "2"}

\* A word whose value does not fit 32 bits; TLC's integers stop at 2^31-1,
\* so its value is carried as the flag above32 and a stand-in number.
BigWord == "4294967296"
BigValue == 2147483647
\* A decimal word of several digits, with its value.
LargeWord == "3000000"
LargeValue == 3000000

\* std::strtoull / strtoul / strtoll on the words of the model: a single
\* decimal digit, BigWord or LargeWord converts and leaves end at the terminating
\* NUL; the empty string converts nothing and leaves end at its NUL as
\* well; any other word converts nothing and leaves end at its first
\* character.
strto(text) ==
    IF \E d \in 1..10 : Digits[d] = text
    THEN [value |-> (CHOOSE d \in 1..10 : Digits[d] = text) - 1,
          atNul |-> TRUE, above32 |-> FALSE]
    ELSE IF text = BigWord
         THEN [value |-> BigValue, atNul |-> TRUE, above32 |-> TRUE]
    ELSE IF text = LargeWord
         THEN [value |-> LargeValue, atNul |-> TRUE, above32 |-> FALSE]
         ELSE [value |-> 0, atNul |-> (text = ""), above32 |-> FALSE]

Thrown(what) == [thrown |-> TRUE, what |-> what, value |-> 0]
Value(v) == [thrown |-> FALSE, what |-> <<>>, value |-> v]

parseSizeT(text) ==
    LET r == strto(text)
    IN  IF ~r.atNul THEN Thrown(<<"unable to parse numeric argument">>)
        ELSE Value(r.value)

parseUint32(text) ==
    LET r == strto(text)
    IN  IF ~r.atNul THEN Thrown(<<"unable to parse numeric argument">>)
        ELSE IF r.above32
             THEN Thrown(<<"numeric argument exceeds uint32_t range">>)
             ELSE Value(r.value)

parseStreamSize(text) ==
    LET r == strto(text)
    IN  IF ~r.atNul THEN Thrown(<<"unable to parse numeric argument">>)
        ELSE IF r.value <= 0
             THEN Thrown(<<"buffer sizes must be positive">>)
             ELSE Value(r.value)

\* The numeric parser a flag uses.
parseNumber(kind, text) ==
    IF kind = "size_t" THEN parseSizeT(text)
    ELSE IF kind = "uint32_t" THEN parseUint32(text)
    ELSE parseStreamSize(text)

\* requireValue: the word after argv[i], or a throw when there is none.
requireValue(a, i) ==
    IF i >= Len(a) THEN Thrown(<<"missing value for argument">>)
    ELSE Value(a[i + 1])

DefaultOptions ==
    [fileCount |-> DefaultFileCount,
     messagesPerFile |-> DefaultMessagesPerFile,
     queueSize |-> DefaultQueueSize,
     logContainerSize |-> LibDefaultLogContainerSize,
     uncompressedBufferSize |-> LibDefaultLogContainerSize * BufferFactor,
     compressionThreads |-> LibCompressionThreadCount,
     outputDirectory |-> "blf_multi_writer_logs"]

Throw(what) == [kind |-> "throw", what |-> what, options |-> DefaultOptions]
\* Faulty variant of HelpExit: the usage is reported as an error.
HelpExitAsError == Throw(<<"Usage">>)
\* The usage text and std::exit(EXIT_SUCCESS).
HelpExit == [kind |-> "exit", what |-> <<"Usage">>, options |-> DefaultOptions]
Return(o) == [kind |-> "return", what |-> <<>>, options |-> o]

\* Faulty variant of Clamp: the staging size is returned as given.
ClampMissing(o) == o

\* The final clamp of parseCommandLine.
Clamp(o) ==
    IF o.uncompressedBufferSize < o.logContainerSize
    THEN [o EXCEPT !.uncompressedBufferSize = o.logContainerSize]
    ELSE o

\* A numeric flag: parse the required value as `kind`, reject zero when
\* `positive`, store it in `fld`, and go on with the word after the value.
RECURSIVE parseLoop(_, _, _)
\* Faulty variant of NumericFlag: the zero check is missing.
NumericFlagNoZeroCheck(a, i, o, kind, fld, positive, flag) ==
    LET t == requireValue(a, i)
    IN  IF t.thrown THEN Throw(t.what)
        ELSE LET v == parseNumber(kind, t.value)
             IN  IF v.thrown THEN Throw(v.what)
                 ELSE parseLoop(a, i + 2, [o EXCEPT ![fld] = v.value])

NumericFlag(a, i, o, kind, fld, positive, flag) ==
    LET t == requireValue(a, i)
    IN  IF t.thrown THEN Throw(t.what)
        ELSE LET v == parseNumber(kind, t.value)
             IN  IF v.thrown THEN Throw(v.what)
                 ELSE IF positive /\ v.value = 0
                      THEN Throw(<<flag, "requires a positive value">>)
                      ELSE parseLoop(a, i + 2, [o EXCEPT ![fld] = v.value])

\* The for loop of parseCommandLine from index i on, then the clamp.
parseLoop(a, i, o) ==
    IF i > Len(a) THEN Return(Clamp(o))
    ELSE LET argument == a[i]
         IN  IF argument \in HelpFlags THEN HelpExit
             ELSE IF argument = "--files"
                  THEN NumericFlag(a, i, o, "size_t", "fileCount", TRUE, argument)
             ELSE IF argument = "--messages"
                  THEN NumericFlag(a, i, o, "size_t", "messagesPerFile", TRUE, argument)
             ELSE IF argument = "--queue-size"
                  THEN NumericFlag(a, i, o, "uint32_t", "queueSize", TRUE, argument)
             ELSE IF argument = "--uncompressed-bytes"
                  THEN NumericFlag(a, i, o, "streamsize", "uncompressedBufferSize", FALSE, argument)
             ELSE IF argument = "--log-container-bytes"
                  THEN NumericFlag(a, i, o, "uint32_t", "logContainerSize", FALSE, argument)
             ELSE IF argument = "--compression-threads"
                  THEN NumericFlag(a, i, o, "uint32_t", "compressionThreads", TRUE, argument)
             ELSE IF argument = "--output-dir"
                  THEN LET t == requireValue(a, i)
                       IN  IF t.thrown THEN Throw(t.what)
                           ELSE parseLoop(a, i + 2, [o EXCEPT !.outputDirectory = t.value])
             ELSE Throw(<<"Unknown argument", argument>>)

parseCommandLine(a) == parseLoop(a, 1, DefaultOptions)

\* ------------------------------------------------------------- the inputs
\* Command lines of at most MaxArgs words whose run, if it gets as far as
\* running, has at most MaxFiles writers of at most MaxMsgs frames.
RunFits(a) ==
    LET r == parseCommandLine(a)
    IN  r.kind = "return" =>
            /\ r.options.fileCount <= MaxFiles
            /\ r.options.messagesPerFile <= MaxMsgs

ArgvInputs ==
    {a \in UNION {[1..n -> Tokens] : n \in 0..MaxArgs} : RunFits(a)}


\* ------------------------------------------------------------------ Init
EmptyFn == [i \in {} |-> 0]
\* No function is under examination; the micro-benchmark is not running.
NoProbe == <<>>
NoMicro == [pc |-> "off"]

InitMain(inputs) ==
    /\ argv \in inputs
    /\ mpc = "parse"
    /\ options = DefaultOptions
    /\ dirState = "untouched"
    /\ index = 0
    /\ results = EmptyFn
    /\ errors = EmptyFn
    /\ threads = <<>>
    /\ joined = 0
    /\ tpc = EmptyFn
    /\ files = EmptyFn
    /\ frames = EmptyFn
    /\ stdout = <<>>
    /\ stderr = <<>>
    /\ exitStatus = NoStatus
    /\ caught = NoError
    /\ clock = 0
    /\ overall = [start |-> 0, end |-> 0]
    /\ timer = EmptyFn
    /\ failLog = <<>>
    /\ slotWriters = [messagesWritten |-> EmptyFn, secondsTaken |-> EmptyFn,
                      error |-> EmptyFn]
    /\ slotReads = {}
    /\ events = EmptyFn

InitWith(inputs) ==
    /\ InitMain(inputs)
    /\ probe = NoProbe
    /\ micro = NoMicro

Init == InitWith(ArgvInputs)

\* steady_clock::now() returns `clock`; the clock is monotonic: by the next
\* call it has stayed or advanced.
Tick == clock' \in {clock, clock + 1}

\* ------------------------------------------------------------------ main
\* Faulty variant of MainCatch: the handler falls through to return EXIT_SUCCESS.
MainCatchFallsThrough(ex) ==
    /\ caught' = ex
    /\ stderr' = Append(stderr, <<"Error: ", ex.what>>)
    /\ exitStatus' = EXIT_SUCCESS
    /\ mpc' = "exited"

\* main's handler: catch (const std::exception & ex): one line on std::cerr
\* and return EXIT_FAILURE.
MainCatch(ex) ==
    /\ caught' = ex
    /\ stderr' = Append(stderr, <<"Error: ", ex.what>>)
    /\ exitStatus' = EXIT_FAILURE
    /\ mpc' = "exited"

\* parseCommandLine returns the options.
ParseReturn ==
    /\ mpc = "parse"
    /\ LET r == parseCommandLine(argv)
       IN  /\ r.kind = "return"
           /\ options' = r.options
    /\ mpc' = "mkdir"
    /\ UNCHANGED <<argv, probe, micro, clock, overall, dirState, index, threads, joined, stdout, stderr,
                   exitStatus, caught, slotReads>>
    /\ UNCHANGED taskVars

\* parseCommandLine throws std::runtime_error; main catches it.
ParseThrow ==
    /\ mpc = "parse"
    /\ LET r == parseCommandLine(argv)
       IN  /\ r.kind = "throw"
           /\ MainCatch([origin |-> -1, what |-> r.what])
    /\ UNCHANGED <<argv, probe, micro, clock, overall, options, dirState, index, threads, joined, stdout,
                   slotReads>>
    /\ UNCHANGED taskVars

\* parseCommandLine prints the usage and calls std::exit(EXIT_SUCCESS).
ParseHelp ==
    /\ mpc = "parse"
    /\ LET r == parseCommandLine(argv)
       IN  /\ r.kind = "exit"
           /\ stdout' = Append(stdout, r.what)
    /\ exitStatus' = EXIT_SUCCESS
    /\ mpc' = "exited"
    /\ UNCHANGED <<argv, probe, micro, clock, overall, options, dirState, index, threads, joined, stderr,
                   caught, slotReads>>
    /\ UNCHANGED taskVars

\* What mkdir(path, 0755) can answer: success, EEXIST (the path exists, as
\* a directory or as something else), or another errno.
MkdirOutcomes == {"created", "existsDir", "existsOther", "failed"}

ensureDirectoryExists(outcome) ==
    IF outcome = "created" THEN TRUE
    ELSE IF outcome \in {"existsDir", "existsOther"} THEN TRUE
    ELSE FALSE

EnsureDirectory ==
    /\ mpc = "mkdir"
    /\ \E outcome \in MkdirOutcomes :
         /\ dirState' = outcome
         /\ IF ensureDirectoryExists(outcome)
            THEN /\ mpc' = "alloc"
                 /\ UNCHANGED <<stderr, exitStatus>>
            ELSE /\ stderr' = Append(stderr,
                        <<"Failed to create output directory", options.outputDirectory>>)
                 /\ exitStatus' = EXIT_FAILURE
                 /\ mpc' = "exited"
    /\ UNCHANGED <<argv, probe, micro, clock, overall, options, index, threads, joined, stdout, caught,
                   slotReads>>
    /\ UNCHANGED taskVars

\* results(fileCount), errors(fileCount), threads.reserve(fileCount).
SlotIds(o) == 0..(o.fileCount - 1)

Allocate ==
    /\ mpc = "alloc"
    /\ results' = [i \in SlotIds(options) |-> [messagesWritten |-> 0, secondsTaken |-> 0]]
    /\ errors' = [i \in SlotIds(options) |-> NoError]
    /\ threads' = <<>>
    /\ tpc' = [i \in SlotIds(options) |-> "idle"]
    /\ files' = [i \in SlotIds(options) |-> "none"]
    /\ frames' = [i \in SlotIds(options) |-> <<>>]
    /\ slotWriters' = [messagesWritten |-> [i \in SlotIds(options) |-> <<>>],
                       secondsTaken |-> [i \in SlotIds(options) |-> <<>>],
                       error |-> [i \in SlotIds(options) |-> <<>>]]
    /\ timer' = [i \in SlotIds(options) |-> [start |-> 0, end |-> 0]]
    /\ events' = [i \in SlotIds(options) |-> <<>>]
    /\ overall' = [overall EXCEPT !.start = clock]
    /\ Tick
    /\ index' = 0
    /\ mpc' = "launch"
    /\ UNCHANGED <<argv, probe, micro, options, dirState, joined, stdout, stderr,
                   exitStatus, caught, failLog, slotReads>>

\* Faulty variant of Launch: a thread is started once the one before it is over.
LaunchAfterPrevious ==
    /\ index > 0 => tpc[index - 1] = "done"
    /\ mpc = "launch"
    /\ index < options.fileCount
    /\ threads' = Append(threads, index)
    /\ tpc' = [tpc EXCEPT ![index] = "open"]
    /\ index' = index + 1
    /\ UNCHANGED <<argv, probe, micro, clock, overall, mpc, options, dirState, joined, stdout, stderr,
                   exitStatus, caught, slotReads>>
    /\ UNCHANGED <<results, errors, files, frames, timer, failLog, slotWriters, events>>

\* One iteration of the launch loop: threads.push_back(std::thread(...)).
Launch ==
    /\ mpc = "launch"
    /\ index < options.fileCount
    /\ threads' = Append(threads, index)
    /\ tpc' = [tpc EXCEPT ![index] = "open"]
    /\ index' = index + 1
    /\ UNCHANGED <<argv, probe, micro, clock, overall, mpc, options, dirState, joined, stdout, stderr,
                   exitStatus, caught, slotReads>>
    /\ UNCHANGED <<results, errors, files, frames, timer, failLog, slotWriters, events>>

LaunchDone ==
    /\ mpc = "launch"
    /\ ~(index < options.fileCount)
    /\ mpc' = "join"
    /\ index' = 0
    /\ UNCHANGED <<argv, probe, micro, clock, overall, options, dirState, threads, joined, stdout, stderr,
                   exitStatus, caught, slotReads>>
    /\ UNCHANGED taskVars

\* Faulty variant of JoinReturns: join does not wait for the thread.
JoinReturnsAtOnce(t) == TRUE

\* Faulty variant of JoinReturns: join returns only for a thread that published a
\* result.
JoinReturnsOnResult(t) == tpc[t] = "done" /\ errors[t] = NoError

\* threads[idx].join() returns once the thread function has returned.
JoinReturns(t) == tpc[t] = "done"

Join ==
    /\ mpc = "join"
    /\ index < Len(threads)
    /\ JoinReturns(threads[index + 1])
    /\ joined' = joined + 1
    /\ index' = index + 1
    /\ UNCHANGED <<argv, probe, micro, clock, overall, mpc, options, dirState, threads, stdout, stderr,
                   exitStatus, caught, slotReads>>
    /\ UNCHANGED taskVars

\* Faulty variant of JoinDone: overallEnd is not taken after the joins
\* and keeps the time of overallStart.
JoinDoneEndNotTaken ==
    /\ mpc = "join"
    /\ ~(index < Len(threads))
    /\ overall' = [overall EXCEPT !.end = overall.start]
    /\ Tick
    /\ mpc' = "scan"
    /\ index' = 0
    /\ UNCHANGED <<argv, probe, micro, options, dirState, threads, joined, stdout, stderr,
                   exitStatus, caught, slotReads>>
    /\ UNCHANGED taskVars

\* The join loop is over: const auto overallEnd = steady_clock::now();
JoinDone ==
    /\ mpc = "join"
    /\ ~(index < Len(threads))
    /\ overall' = [overall EXCEPT !.end = clock]
    /\ Tick
    /\ mpc' = "scan"
    /\ index' = 0
    /\ UNCHANGED <<argv, probe, micro, options, dirState, threads, joined, stdout, stderr,
                   exitStatus, caught, slotReads>>
    /\ UNCHANGED taskVars

\* Number of slots of a vector modelled as a function on 0..n-1.
Size(v) == Cardinality(DOMAIN v)

\* Faulty variant of ScanSlot: the scan runs from the last slot down.
ScanSlotReversed(k) == Size(errors) - 1 - k

\* The slot iteration k of the scan examines: errors[index].
ScanSlot(k) == k

\* One iteration of the scan of errors: rethrow the first one set.
Scan ==
    /\ mpc = "scan"
    /\ index < Size(errors)
    /\ slotReads' = slotReads \cup {<<"error", ScanSlot(index)>>}
    /\ IF errors[ScanSlot(index)] # NoError
       THEN /\ MainCatch(errors[ScanSlot(index)])
            /\ UNCHANGED index
       ELSE /\ index' = index + 1
            /\ UNCHANGED <<mpc, stderr, exitStatus, caught>>
    /\ UNCHANGED <<argv, probe, micro, clock, overall, options, dirState, threads, joined, stdout>>
    /\ UNCHANGED taskVars

ScanDone ==
    /\ mpc = "scan"
    /\ ~(index < Size(errors))
    /\ mpc' = "summary"
    /\ UNCHANGED <<argv, probe, micro, clock, overall, options, dirState, index, threads, joined, stdout,
                   stderr, exitStatus, caught, slotReads>>
    /\ UNCHANGED taskVars

\* Faulty variant of Summary: the total is the frame count of one file.
SummaryOfOneFile(o, res, totalSeconds) ==
    [wallClock |-> totalSeconds,
     filesWritten |-> o.fileCount,
     framesPerFile |-> o.messagesPerFile,
     totalFrames |-> o.messagesPerFile,
     writers |-> [i \in DOMAIN res |-> res[i]]]

\* printSummary's report: the totals and one line per result slot.
Summary(o, res, totalSeconds) ==
    [wallClock |-> totalSeconds,
     filesWritten |-> o.fileCount,
     framesPerFile |-> o.messagesPerFile,
     totalFrames |-> o.messagesPerFile * o.fileCount,
     writers |-> [i \in DOMAIN res |-> res[i]]]

PrintSummary ==
    /\ mpc = "summary"
    /\ slotReads' = slotReads \cup {<<"result", i>> : i \in DOMAIN results}
    /\ stdout' = Append(stdout, Summary(options, results, overall.end - overall.start))
    /\ exitStatus' = EXIT_SUCCESS
    /\ mpc' = "exited"
    /\ UNCHANGED <<argv, probe, micro, clock, overall, options, dirState, index, threads, joined, stderr,
                   caught>>
    /\ UNCHANGED taskVars

MainNext ==
    \/ ParseReturn
    \/ ParseThrow
    \/ ParseHelp
    \/ EnsureDirectory
    \/ Allocate
    \/ Launch
    \/ LaunchDone
    \/ Join
    \/ JoinDone
    \/ Scan
    \/ ScanDone
    \/ PrintSummary

\* ------------------------------------------------------- the writer thread
\* Faulty variant of ResultSlot: every thread is handed results[0].
ResultSlotShared(idx) == 0

\* std::ref(results[index]) and std::ref(errors[index]): the slots the
\* thread of `idx` is handed.
ResultSlot(idx) == idx
ErrorSlot(idx) == idx

\* operator<< of a size_t: its decimal digits, most significant first.
RECURSIVE Decimal(_)
Decimal(n) ==
    IF n < 10 THEN <<Digits[n + 1]>>
    ELSE Decimal(n \div 10) \o <<Digits[(n % 10) + 1]>>

\* Faulty variant of fileName: the index is left out of the name.
fileNameWithoutIndex(o, idx) == <<o.outputDirectory, "/can_channel_", ".blf">>

\* config.outputDirectory + "/can_channel_" + (config.index + 1) + ".blf"
fileName(o, idx) ==
    <<o.outputDirectory, "/can_channel_">> \o Decimal(idx + 1) \o <<".blf">>

\* Faulty variant of makeFrame: the time stamps count from one.
makeFrameStampedFromOne(idx, i) ==
    [channel |-> (idx % ChannelWrap) + 1,
     dlc |-> payloadCount,
     id |-> IdBase + (i % IdPeriod),
     objectTimeStamp |-> i + 1,
     flags |-> 0,
     data |-> [byteIndex \in 0..(payloadCount - 1) |-> (i + byteIndex) % ByteMask]]

\* Faulty variant of makeFrame: the identifier wraps one number late.
makeFrameWrapsLate(idx, i) ==
    [channel |-> (idx % ChannelWrap) + 1,
     dlc |-> payloadCount,
     id |-> IdBase + (i % (IdPeriod + 1)),
     objectTimeStamp |-> i,
     flags |-> 0,
     data |-> [byteIndex \in 0..(payloadCount - 1) |-> (i + byteIndex) % ByteMask]]

\* The CanMessage built for sequence number i by the thread of `idx`.
makeFrame(idx, i) ==
    [channel |-> (idx % ChannelWrap) + 1,
     dlc |-> payloadCount,
     id |-> IdBase + (i % IdPeriod),
     objectTimeStamp |-> i,
     flags |-> 0,
     data |-> [byteIndex \in 0..(payloadCount - 1) |-> (i + byteIndex) % ByteMask]]

\* Faulty variant of Catch: the handler swallows the exception.
CatchSwallowed(t, what) ==
    /\ files' = [files EXCEPT ![t] = IF @ = "open" THEN "unwound" ELSE @]
    /\ tpc' = [tpc EXCEPT ![t] = "done"]
    /\ events' = [events EXCEPT ![t] = Append(@, "caught")]
    /\ UNCHANGED <<errors, slotWriters, failLog>>

\* catch (...) { error = std::current_exception(); }, after the unwinding
\* has destroyed `file`; then the thread function returns.
Catch(t, what) ==
    /\ errors' = [errors EXCEPT ![ErrorSlot(t)] = [origin |-> t, what |-> what]]
    /\ slotWriters' = [slotWriters EXCEPT !.error[ErrorSlot(t)] = Append(@, t)]
    /\ files' = [files EXCEPT ![t] = IF @ = "open" THEN "unwound" ELSE @]
    /\ failLog' = Append(failLog, t)
    /\ events' = [events EXCEPT ![t] = Append(@, "caught")]
    /\ tpc' = [tpc EXCEPT ![t] = "done"]

\* Whether a step of the thread of t may be taken: the thread has been
\* started and has not returned.
Running(t) == tpc[t] \notin {"idle", "done"}

\* file.open(fileName, out) and the is_open() check.
Open(t) ==
    /\ tpc[t] = "open"
    /\ \/ /\ dirState # "existsOther"
          /\ files' = [files EXCEPT ![t] = "open"]
          /\ tpc' = [tpc EXCEPT ![t] = "start"]
          /\ events' = [events EXCEPT ![t] = Append(@, "open")]
          /\ UNCHANGED <<results, errors, frames, timer, failLog, slotWriters>>
       \/ /\ Catch(t, <<"unable to open output file", fileName(options, t)>>)
          /\ UNCHANGED <<results, frames, timer>>
    /\ UNCHANGED <<argv, probe, micro, clock, overall, mpc, options, dirState, index, threads, joined,
                   stdout, stderr, exitStatus, caught, slotReads>>

\* const auto start = steady_clock::now();
StartTimer(t) ==
    /\ tpc[t] = "start"
    /\ timer' = [timer EXCEPT ![t].start = clock]
    /\ Tick
    /\ tpc' = [tpc EXCEPT ![t] = "write"]
    /\ events' = [events EXCEPT ![t] = Append(@, "start")]
    /\ UNCHANGED <<results, errors, files, frames, failLog, slotWriters>>
    /\ UNCHANGED <<argv, probe, micro, overall, mpc, options, dirState, index, threads, joined,
                   stdout, stderr, exitStatus, caught, slotReads>>

\* Faulty variant of Write: the loop stops once a sibling has captured a failure.
WriteUnlessSiblingFailed(t) ==
    /\ \A u \in DOMAIN errors : errors[u] = NoError
    /\ tpc[t] = "write"
    /\ Len(frames[t]) < options.messagesPerFile
    /\ \/ /\ frames' = [frames EXCEPT ![t] = Append(@, makeFrame(t, Len(@)))]
          /\ events' = [events EXCEPT ![t] = Append(@, "write")]
          /\ UNCHANGED <<results, errors, tpc, files, timer, failLog, slotWriters>>
       \/ /\ Catch(t, <<"write failed">>)
          /\ UNCHANGED <<results, frames, timer>>
    /\ UNCHANGED <<argv, probe, micro, clock, overall, mpc, options, dirState, index, threads, joined,
                   stdout, stderr, exitStatus, caught, slotReads>>

\* One iteration of the frame loop, i = Len(frames[t]): build the frame and
\* file.write(message), which returns or throws.
Write(t) ==
    /\ tpc[t] = "write"
    /\ Len(frames[t]) < options.messagesPerFile
    /\ \/ /\ frames' = [frames EXCEPT ![t] = Append(@, makeFrame(t, Len(@)))]
          /\ events' = [events EXCEPT ![t] = Append(@, "write")]
          /\ UNCHANGED <<results, errors, tpc, files, timer, failLog, slotWriters>>
       \/ /\ Catch(t, <<"write failed">>)
          /\ UNCHANGED <<results, frames, timer>>
    /\ UNCHANGED <<argv, probe, micro, clock, overall, mpc, options, dirState, index, threads, joined,
                   stdout, stderr, exitStatus, caught, slotReads>>

\* Faulty variant of Close: a close() that fails is taken for one that
\* returned.
CloseUnchecked(t) ==
    /\ tpc[t] = "write"
    /\ ~(Len(frames[t]) < options.messagesPerFile)
    /\ \/ files' = [files EXCEPT ![t] = "closed"]
       \/ files' = files
    /\ tpc' = [tpc EXCEPT ![t] = "stop"]
    /\ events' = [events EXCEPT ![t] = Append(@, "close")]
    /\ UNCHANGED <<results, errors, frames, timer, failLog, slotWriters>>
    /\ UNCHANGED <<argv, probe, micro, clock, overall, mpc, options, dirState, index,
                   threads, joined, stdout, stderr, exitStatus, caught, slotReads>>

\* The loop is over: file.close(), which returns or throws.
Close(t) ==
    /\ tpc[t] = "write"
    /\ ~(Len(frames[t]) < options.messagesPerFile)
    /\ \/ /\ files' = [files EXCEPT ![t] = "closed"]
          /\ tpc' = [tpc EXCEPT ![t] = "stop"]
          /\ events' = [events EXCEPT ![t] = Append(@, "close")]
          /\ UNCHANGED <<results, errors, frames, timer, failLog, slotWriters>>
       \/ /\ Catch(t, <<"close failed">>)
          /\ UNCHANGED <<results, frames, timer>>
    /\ UNCHANGED <<argv, probe, micro, clock, overall, mpc, options, dirState, index, threads, joined,
                   stdout, stderr, exitStatus, caught, slotReads>>

\* const auto end = steady_clock::now();
StopTimer(t) ==
    /\ tpc[t] = "stop"
    /\ timer' = [timer EXCEPT ![t].end = clock]
    /\ Tick
    /\ tpc' = [tpc EXCEPT ![t] = "messagesWritten"]
    /\ events' = [events EXCEPT ![t] = Append(@, "stop")]
    /\ UNCHANGED <<results, errors, files, frames, failLog, slotWriters>>
    /\ UNCHANGED <<argv, probe, micro, overall, mpc, options, dirState, index, threads, joined,
                   stdout, stderr, exitStatus, caught, slotReads>>

\* result.messagesWritten = config.messagesPerFile;
StoreMessagesWritten(t) ==
    /\ tpc[t] = "messagesWritten"
    /\ results' = [results EXCEPT ![ResultSlot(t)].messagesWritten = options.messagesPerFile]
    /\ slotWriters' = [slotWriters EXCEPT !.messagesWritten[ResultSlot(t)] = Append(@, t)]
    /\ tpc' = [tpc EXCEPT ![t] = "secondsTaken"]
    /\ events' = [events EXCEPT ![t] = Append(@, "messagesWritten")]
    /\ UNCHANGED <<errors, files, frames, timer, failLog>>
    /\ UNCHANGED <<argv, probe, micro, clock, overall, mpc, options, dirState, index, threads, joined,
                   stdout, stderr, exitStatus, caught, slotReads>>

\* result.secondsTaken = duration(end - start); then the thread returns.
StoreSecondsTaken(t) ==
    /\ tpc[t] = "secondsTaken"
    /\ results' = [results EXCEPT ![ResultSlot(t)].secondsTaken = timer[t].end - timer[t].start]
    /\ slotWriters' = [slotWriters EXCEPT !.secondsTaken[ResultSlot(t)] = Append(@, t)]
    /\ tpc' = [tpc EXCEPT ![t] = "done"]
    /\ events' = [events EXCEPT ![t] = Append(@, "secondsTaken")]
    /\ UNCHANGED <<errors, files, frames, timer, failLog>>
    /\ UNCHANGED <<argv, probe, micro, clock, overall, mpc, options, dirState, index, threads, joined,
                   stdout, stderr, exitStatus, caught, slotReads>>

\* A step of runWriter in the thread of t.
runWriter(t) ==
    \/ Open(t)
    \/ StartTimer(t)
    \/ Write(t)
    \/ Close(t)
    \/ StopTimer(t)
    \/ StoreMessagesWritten(t)
    \/ StoreSecondsTaken(t)

TaskNext == \E t \in DOMAIN tpc : runWriter(t)

Next == MainNext \/ TaskNext

Spec == Init /\ [][Next]_vars

\* main runs whenever it can; a writer thread may block in the library for
\* ever, so no progress is assumed of it. The command lines are those of at
\* most MaxFairArgs words.
FairArgvInputs == {a \in ArgvInputs : Len(a) <= MaxFairArgs}
InitFair == InitWith(FairArgvInputs)
FairSpec == InitFair /\ [][Next]_vars /\ WF_vars(MainNext)

\* parseCommandLine alone, on command lines of at most MaxParseArgs words
\* drawn from every flag and from small, large and over-wide numbers: the
\* run up to the return of parseCommandLine.
ParseTokens == ValueFlags \cup {"--help", "--bogus", "0", "1", "2", LargeWord, BigWord}
ParseArgvInputs == UNION {[1..n -> ParseTokens] : n \in 0..MaxParseArgs}
InitParse == InitWith(ParseArgvInputs)
NextParse ==
    \/ ParseReturn
    \/ ParseThrow
    \/ ParseHelp
SpecParse == InitParse /\ [][NextParse]_vars

\* The body of the frame loop alone, for any task index up to MaxFiles
\* and any sequence number up to MaxSeq: the frame is built once.
ProbeInputs == [idx : 0..MaxFiles, i : 0..MaxSeq, out : {<<>>}]
InitFrame ==
    /\ InitMain({<<>>})
    /\ micro = NoMicro
    /\ probe \in ProbeInputs
BuildFrame ==
    /\ probe.out = <<>>
    /\ probe' = [probe EXCEPT !.out = <<makeFrame(probe.idx, probe.i)>>]
    /\ UNCHANGED <<argv, micro, clock, overall, mpc, options, dirState, index, threads,
                   joined, stdout, stderr, exitStatus, caught, slotReads>>
    /\ UNCHANGED taskVars
NextFrame == BuildFrame
SpecFrame == InitFrame /\ [][NextFrame]_vars

\* ------------------------------------------- file_write_benchmark.cpp
\* The single-threaded micro-benchmark: its main, with the file system as
\* far as the output path is concerned. The steady clock counts seconds.
multiWriterVars == <<argv, clock, overall, mpc, options, dirState, index, threads, joined,
                     stdout, stderr, exitStatus, caught, slotReads, taskVars, probe>>

AbsentFile == [exists |-> FALSE, size |-> 0]
DiskStates == {AbsentFile} \cup {[exists |-> TRUE, size |-> n] : n \in 0..MaxMicroBytes}

\* main is entered; the output path is absent or left over from before.
MicroEntered(d) ==
    [pc |-> "open", writer |-> "none", disk |-> d, now |-> 0, start |-> 0,
     deadline |-> 0, end |-> 0, frameCount |-> 0, frames |-> <<>>,
     bytesWritten |-> 0, stdout |-> <<>>, stderr |-> <<>>, exit |-> NoStatus,
     events |-> <<>>]

\* A call of steady_clock::now(): time may have passed since the last one.
MicroNow(m) == {m.now, m.now + 1}

\* file.open(outputPath, out | trunc); the result is not looked at.
MicroOpen ==
    /\ micro.pc = "open"
    /\ \/ micro' = [micro EXCEPT !.writer = "open",
                                 !.disk = [exists |-> TRUE, size |-> 0],
                                 !.events = Append(@, "open"),
                                 !.pc = "start"]
       \/ micro' = [micro EXCEPT !.writer = "failed",
                                 !.events = Append(@, "open"),
                                 !.pc = "start"]
    /\ UNCHANGED multiWriterVars

\* start = now(); deadline = start + seconds(1); frameCount = 0.
MicroStart ==
    /\ micro.pc = "start"
    /\ \E t \in MicroNow(micro) :
         micro' = [micro EXCEPT !.start = micro.now,
                                !.deadline = micro.now + OneSecond,
                                !.now = t,
                                !.pc = "loop"]
    /\ UNCHANGED multiWriterVars

\* One iteration of the loop: now() < deadline, the frame is stamped with
\* frameCount and handed to file.write, ++frameCount. The clock reaches the
\* deadline at the latest after MaxMicroFrames frames.
MicroWrite ==
    /\ micro.pc = "loop"
    /\ micro.now < micro.deadline
    /\ micro.frameCount < MaxMicroFrames
    /\ \E t \in MicroNow(micro) :
         micro' = [micro EXCEPT !.frames = IF micro.writer = "open"
                                           THEN Append(@, micro.frameCount) ELSE @,
                                !.frameCount = @ + 1,
                                !.events = Append(@, "write"),
                                !.now = IF micro.frameCount + 1 = MaxMicroFrames
                                        THEN micro.deadline ELSE t]
    /\ UNCHANGED multiWriterVars

\* The loop condition fails: end = now().
MicroLoopEnd ==
    /\ micro.pc = "loop"
    /\ ~(micro.now < micro.deadline)
    /\ \E t \in MicroNow(micro) :
         micro' = [micro EXCEPT !.end = micro.now, !.now = t, !.pc = "close"]
    /\ UNCHANGED multiWriterVars

\* file.close() returns: what has reached the file is for the library to
\* say; then end = now() and durationSeconds.
MicroClose ==
    /\ micro.pc = "close"
    /\ \E t \in MicroNow(micro) :
         \E n \in 0..MaxMicroBytes :
           micro' = [micro EXCEPT !.writer = IF @ = "open" THEN "closed" ELSE @,
                                  !.disk = IF micro.writer = "open"
                                           THEN [exists |-> TRUE, size |-> n] ELSE @,
                                  !.events = Append(@, "close"),
                                  !.end = micro.now,
                                  !.now = t,
                                  !.pc = "measure"]
    /\ UNCHANGED multiWriterVars

\* file.write or file.close throws: main has no handler, std::terminate.
MicroTerminate ==
    /\ micro.pc \in {"loop", "close"}
    /\ micro.pc = "loop" => micro.now < micro.deadline
    /\ micro' = [micro EXCEPT !.events = Append(@, "terminate"),
                              !.exit = Aborted,
                              !.pc = "exited"]
    /\ UNCHANGED multiWriterVars

\* fileSize(path): 0 when the stream is not open, else tellg() at the end.
fileSize(d, opens) == IF ~(d.exists /\ opens) THEN 0 ELSE d.size

\* const auto bytesWritten = fileSize(outputPath);
MicroMeasure ==
    /\ micro.pc = "measure"
    /\ \E opens \in BOOLEAN :
         micro' = [micro EXCEPT !.bytesWritten = fileSize(micro.disk, opens),
                                !.events = Append(@, "measure"),
                                !.pc = "check"]
    /\ UNCHANGED multiWriterVars

\* Faulty variant of MicroUnmeasured: the test is never true.
MicroUnmeasuredNever(bytesWritten) == FALSE

\* if (bytesWritten == 0U)
MicroUnmeasured(bytesWritten) == bytesWritten = 0

\* The measurement failed: the message, return 1.
MicroFail ==
    /\ micro.pc = "check"
    /\ MicroUnmeasured(micro.bytesWritten)
    /\ micro' = [micro EXCEPT !.stderr = Append(@, "Failed to measure file size."),
                              !.exit = 1,
                              !.pc = "exited"]
    /\ UNCHANGED multiWriterVars

\* The statistics, printed on std::cout.
Statistics(m) ==
    [duration |-> m.end - m.start, frames |-> m.frameCount, bytes |-> m.bytesWritten]

MicroReport ==
    /\ micro.pc = "check"
    /\ ~MicroUnmeasured(micro.bytesWritten)
    /\ micro' = [micro EXCEPT !.stdout = Append(@, Statistics(micro)),
                              !.events = Append(@, "report"),
                              !.pc = "remove"]
    /\ UNCHANGED multiWriterVars

\* removeFile(outputPath), whose result is dropped; return 0.
MicroRemove ==
    /\ micro.pc = "remove"
    /\ \/ micro' = [micro EXCEPT !.disk = AbsentFile,
                                 !.events = Append(@, "remove"),
                                 !.exit = 0,
                                 !.pc = "exited"]
       \/ micro' = [micro EXCEPT !.events = Append(@, "remove"),
                                 !.exit = 0,
                                 !.pc = "exited"]
    /\ UNCHANGED multiWriterVars

InitMicro ==
    /\ InitMain({<<>>})
    /\ probe = NoProbe
    /\ micro \in {MicroEntered(d) : d \in DiskStates}
NextMicro ==
    \/ MicroOpen
    \/ MicroStart
    \/ MicroWrite
    \/ MicroLoopEnd
    \/ MicroClose
    \/ MicroTerminate
    \/ MicroMeasure
    \/ MicroFail
    \/ MicroReport
    \/ MicroRemove
SpecMicro == InitMicro /\ [][NextMicro]_vars

\* ---------------------------------------------------------------- claims
Terminated(t) == t \in DOMAIN tpc /\ tpc[t] = "done"
Launched(t) == t \in DOMAIN tpc /\ tpc[t] # "idle"

\* The thread of t recorded both fields of its result slot / neither.
ResultRecorded(t) ==
    /\ slotWriters.messagesWritten[t] = <<t>>
    /\ slotWriters.secondsTaken[t] = <<t>>
    /\ results[t].messagesWritten = options.messagesPerFile
    /\ results[t].secondsTaken = timer[t].end - timer[t].start
ResultUntouched(t) ==
    /\ slotWriters.messagesWritten[t] = <<>>
    /\ slotWriters.secondsTaken[t] = <<>>
    /\ results[t] = [messagesWritten |-> 0, secondsTaken |-> 0]
FailureCaptured(t) == errors[t] # NoError

SummaryPrinted == \E k \in 1..Len(stdout) : stdout[k] = Summary(options, results, overall.end - overall.start)
TaskErrorReported == caught.origin \in DOMAIN tpc

\* C1: once writer task i has terminated, exactly one of its result slot
\* (both fields recorded by the task) and its failure slot is populated:
\* never both, never neither.
C1_ResultXorFailure ==
    \A t \in DOMAIN tpc :
        tpc[t] = "done" =>
            \/ ResultRecorded(t) /\ ~FailureCaptured(t)
            \/ ResultUntouched(t) /\ FailureCaptured(t)

\* Two terminated tasks, one with a result and one with a failure.
C1_Witness ==
    \E t, u \in DOMAIN tpc :
        /\ tpc[t] = "done" /\ ResultRecorded(t)
        /\ tpc[u] = "done" /\ FailureCaptured(u)

\* C2: main reads no result or failure slot and prints nothing (no summary,
\* no task error) while any of the fileCount tasks has not been joined; in
\* particular not while one task has failed and a sibling is still running.
C2_NoReadBeforeAllJoined ==
    /\ (slotReads # {} \/ SummaryPrinted \/ TaskErrorReported) =>
           /\ joined = options.fileCount
           /\ \A t \in DOMAIN tpc : tpc[t] = "done"
    /\ (\E t \in DOMAIN tpc : tpc[t] # "done") =>
           slotReads = {} /\ stdout = <<>> /\ stderr = <<>>

\* Task 0 has failed and been joined while task 1 is still writing.
C2_Witness ==
    /\ mpc = "join" /\ joined = 1
    /\ Len(threads) = 2
    /\ FailureCaptured(0)
    /\ tpc[1] = "write"

\* C3: the slot arrays have fileCount slots from before the first launch
\* on and are never resized; every slot field is written at most once, by
\* the task of its own index only; a slot changes only in a step of its
\* own task.
C3_SlotsSized ==
    mpc \in {"launch", "join", "scan", "summary"} \/ threads # <<>> =>
        /\ DOMAIN results = 0..(options.fileCount - 1)
        /\ DOMAIN errors = 0..(options.fileCount - 1)
C3_OwnSlotOnce ==
    \A k \in {"messagesWritten", "secondsTaken", "error"} :
        \A j \in DOMAIN slotWriters[k] :
            slotWriters[k][j] \in {<<>>, <<j>>}
C3_SlotStep ==
    mpc # "alloc" =>
        /\ DOMAIN results' = DOMAIN results
        /\ DOMAIN errors' = DOMAIN errors
        /\ \A j \in DOMAIN results :
               results'[j] # results[j] \/ errors'[j] # errors[j] =>
                   /\ tpc'[j] # tpc[j]
                   /\ \A u \in DOMAIN tpc \ {j} : tpc'[u] = tpc[u]
                   /\ mpc' = mpc
C3_SlotsOwned ==
    [](C3_SlotsSized /\ C3_OwnSlotOnce) /\ [][C3_SlotStep]_vars

\* Both tasks have written into their own result slots.
C3_Witness ==
    /\ Len(threads) = 2
    /\ slotWriters.messagesWritten[0] = <<0>>
    /\ slotWriters.secondsTaken[1] = <<1>>

\* The failed task of the smallest index.
FirstFailed == CHOOSE t \in DOMAIN errors :
                   /\ FailureCaptured(t)
                   /\ \A u \in DOMAIN errors : FailureCaptured(u) => t <= u

\* C4: when tasks have failed, the failure main reports is the one captured
\* by the failed task of the smallest index, whatever the order in time of
\* the failures, and it is the only line on std::cerr: the failures of the
\* tasks of higher index produce no output.
C4_FirstFailureByIndex ==
    mpc = "exited" /\ (\E t \in DOMAIN errors : FailureCaptured(t)) =>
        /\ caught = errors[FirstFailed]
        /\ caught.origin = FirstFailed
        /\ stderr = << <<"Error: ", errors[FirstFailed].what>> >>
        /\ stdout = <<>>

\* Task 1 failed first in time, task 0 after it, and task 0's failure (an
\* open failure naming its file) is the one reported.
C4_Witness ==
    /\ mpc = "exited"
    /\ failLog = <<1, 0>>
    /\ caught.origin = 0
    /\ errors[1].what = <<"write failed">>
    /\ stderr = << <<"Error: ", <<"unable to open output file", fileName(options, 0)>> >> >>

\* C5: a task failure does not abort the siblings: a step of a task is
\* enabled exactly when the task has been started and has not returned,
\* whatever the state of the other tasks, and a task that terminates
\* without a failure has submitted all messagesPerFile frames, closed its
\* writer and recorded its result.
C5_SiblingsIndependent ==
    \A t \in DOMAIN tpc :
        /\ (ENABLED runWriter(t)) <=> Running(t)
        /\ tpc[t] = "done" /\ ~FailureCaptured(t) =>
               /\ Len(frames[t]) = options.messagesPerFile
               /\ files[t] = "closed"
               /\ ResultRecorded(t)

\* Task 0 failed at open, and task 1 went on to write every frame, close
\* and record its result.
C5_Witness ==
    /\ Len(threads) = 2
    /\ failLog = <<0>>
    /\ frames[0] = <<>>
    /\ tpc[1] = "done"
    /\ Len(frames[1]) = 2
    /\ ResultRecorded(1)

\* The thread vector after k launches: the indices 0..k-1 in order.
LaunchedUpTo(k) == [j \in 1..k |-> j - 1]

\* C6: once parsing and directory setup have succeeded main launches
\* exactly fileCount tasks, index 0..fileCount-1 each once, all of them
\* before it waits for any; a launch is never held up by the tasks
\* launched before it.
C6_LaunchAllBeforeJoin ==
    /\ mpc = "launch" =>
           /\ threads = LaunchedUpTo(index)
           /\ joined = 0
           /\ index < options.fileCount => ENABLED Launch
    /\ mpc \in {"join", "scan", "summary"} \/ joined > 0 =>
           threads = LaunchedUpTo(options.fileCount)
    /\ \A t \in DOMAIN tpc : Launched(t) <=> \E k \in 1..Len(threads) : threads[k] = t

\* Both threads are started and neither has taken a step.
C6_Witness ==
    /\ mpc = "join" /\ joined = 0
    /\ threads = <<0, 1>>
    /\ \A t \in DOMAIN tpc : tpc[t] = "open"

\* The two outcomes of a run.
SuccessOutcome ==
    /\ exitStatus = EXIT_SUCCESS
    /\ stdout = <<Summary(options, results, overall.end - overall.start)>>
    /\ stderr = <<>>
FailureOutcome ==
    /\ exitStatus # EXIT_SUCCESS
    /\ Len(stderr) = 1
    /\ stdout = <<>>
OneOfTwoOutcomes ==
    /\ SuccessOutcome \/ FailureOutcome
    /\ SuccessOutcome => \A t \in DOMAIN errors : ~FailureCaptured(t)
    /\ (\E t \in DOMAIN errors : FailureCaptured(t)) => FailureOutcome

\* The command line, read from the left as the words say, without
\* reference to the parser: a flag that takes a value followed by a value
\* it accepts.
NumericFlags == ValueFlags \ {"--output-dir"}
DecimalWords == {Digits[d] : d \in 1..10} \cup {BigWord, LargeWord}
PositiveWords == DecimalWords \ {"0"}
GoodPair(flag, text) ==
    \/ flag = "--output-dir"
    \/ flag \in NumericFlags /\ text \in PositiveWords
\* Word k is in flag position and every word before it belongs to a flag
\* with an accepted value.
ScanReaches(a, k) ==
    /\ k \in 1..Len(a)
    /\ k % 2 = 1
    /\ \A j \in 1..(k - 1) : j % 2 = 1 => a[j] \in ValueFlags /\ GoodPair(a[j], a[j + 1])
HelpReached(a) == \E k \in 1..Len(a) : ScanReaches(a, k) /\ a[k] \in HelpFlags
\* Word k is the offending argument of a parsing error: an unknown flag,
\* a flag whose value is missing, a number that does not parse, or a zero
\* for --files or --messages.
Offending(a, k) ==
    /\ ScanReaches(a, k)
    /\ \/ a[k] \notin ValueFlags \cup HelpFlags
       \/ a[k] \in ValueFlags /\ k = Len(a)
       \/ a[k] \in NumericFlags /\ k < Len(a) /\ a[k + 1] \notin DecimalWords \cup {""}
       \/ a[k] \in {"--files", "--messages"} /\ k < Len(a) /\ a[k + 1] = "0"

\* C7 as stated: every completed run ends in exactly one of two outcomes,
\* success with the summary and exit status zero (only if no task captured
\* a failure) or failure with exactly one error message, a non-zero status
\* and no summary (whenever a task captured a failure).
C7_EveryRunOneOfTwoOutcomes == mpc = "exited" => OneOfTwoOutcomes

\* C7 amended: every completed run that does not stop at --help ends in
\* exactly one of the two outcomes.
C7_RunOneOfTwoOutcomesUnlessHelp ==
    mpc = "exited" /\ ~HelpReached(argv) => OneOfTwoOutcomes

\* A run fails with one error line and no summary although task 0 has
\* recorded its result.
C7_Witness ==
    /\ mpc = "exited"
    /\ failLog = <<1>>
    /\ ResultRecorded(0)
    /\ FailureOutcome

\* C9: an argument-parsing error (unknown flag, missing value, unparsable
\* number, zero for --files or --messages), at whatever position its
\* offending argument stands, ends the run with one error message and a
\* non-zero exit status, before the output directory is created and before
\* any task is launched.
C9_ParseErrorBeforeWork ==
    (\E k \in 1..Len(argv) : Offending(argv, k)) =>
        /\ mpc \in {"parse", "exited"}
        /\ dirState = "untouched"
        /\ threads = <<>> /\ DOMAIN tpc = {}
        /\ mpc = "exited" =>
               /\ exitStatus = EXIT_FAILURE
               /\ Len(stderr) = 1
               /\ stdout = <<>>

\* The run has ended on a zero value for --messages in the last position,
\* after a valid --files.
C9_Witness ==
    /\ mpc = "exited"
    /\ Len(argv) = 4
    /\ Offending(argv, 3)
    /\ argv[3] = "--messages" /\ argv[4] = "0"

\* --help or -h stands on the command line as a flag: not as the value of
\* the flag before it.
HelpGiven(a) ==
    \E k \in 1..Len(a) :
        /\ a[k] \in HelpFlags
        /\ k > 1 => a[k - 1] \notin ValueFlags

HelpOutcome ==
    /\ mpc \in {"parse", "exited"}
    /\ dirState = "untouched"
    /\ threads = <<>> /\ DOMAIN tpc = {}
    /\ mpc = "exited" =>
           /\ exitStatus = EXIT_SUCCESS
           /\ stdout = << <<"Usage">> >>
           /\ stderr = <<>>

\* C10 as stated: whenever --help (or -h) is given as a flag, the program
\* prints the usage and exits with success before doing any work, whichever
\* other arguments accompany it and in whichever order.
C10_HelpWherever == HelpGiven(argv) => HelpOutcome

\* C10 amended: whenever --help (or -h) is given as a flag and every
\* argument before it is a flag with a value it accepts, the program
\* prints the usage and exits with success before doing any work,
\* whichever arguments follow it.
C10_HelpWhenReached == HelpReached(argv) => HelpOutcome

\* The run has ended at a --help that follows a valid --files and is
\* followed by an unknown flag.
C10_Witness ==
    /\ mpc = "exited"
    /\ Len(argv) = 4
    /\ argv[1] = "--files" /\ argv[3] \in HelpFlags /\ argv[4] = "--bogus"
    /\ exitStatus = EXIT_SUCCESS

\* The orchestrator is at work: setup has succeeded and main has not exited.
Orchestrating == mpc \in {"alloc", "launch", "join", "scan", "summary"}
NoOutputNoExit == mpc # "exited" /\ stdout = <<>> /\ stderr = <<>>

\* C8: no cancellation and no timeout. If every launched task eventually
\* terminates, the orchestrator eventually exits with the summary or a
\* task's error; if some launched task never terminates, main never prints
\* anything and never exits, whatever the other tasks do.
C8_AllTerminateThenExit ==
    (\A t \in 0..(MaxFiles - 1) : [](Launched(t) => <>Terminated(t))) =>
        [](Orchestrating => <>(mpc = "exited" /\ (SummaryPrinted \/ TaskErrorReported)))
C8_OneHangsNoExit ==
    \A t \in 0..(MaxFiles - 1) :
        (<>Launched(t) /\ []~Terminated(t)) => []NoOutputNoExit
C8_NoCancellationNoTimeout == C8_AllTerminateThenExit /\ C8_OneHangsNoExit

\* Main is blocked in join on task 0, which has not terminated, although
\* task 1 has failed.
C8_Witness ==
    /\ mpc = "join" /\ index = 0
    /\ Len(threads) = 2
    /\ tpc[0] = "write"
    /\ FailureCaptured(1)
    /\ NoOutputNoExit

\* parseCommandLine has returned the options.
Parsed == mpc # "parse" /\ mpc # "exited"
\* The flag stands in flag position of a command line made of flag and
\* value pairs, and the value of its last occurrence.
Supplied(a, flag) == \E k \in 1..Len(a) : k % 2 = 1 /\ a[k] = flag
LastSupplied(a, flag) ==
    LET k == CHOOSE j \in 1..Len(a) :
                 /\ j % 2 = 1 /\ a[j] = flag
                 /\ \A m \in (j + 1)..Len(a) : ~(m % 2 = 1 /\ a[m] = flag)
    IN  strto(a[k + 1]).value

\* C11: every numeric flag rejects the value 0: the options of a successful
\* parse have fileCount >= 1, messagesPerFile >= 1, queueSize >= 1,
\* uncompressedBufferSize >= 1, logContainerSize > 0 and
\* compressionThreads >= 1 whenever the flag was supplied.
C11_NumericFlagsPositive ==
    Parsed =>
        /\ Supplied(argv, "--files") => options.fileCount >= 1
        /\ Supplied(argv, "--messages") => options.messagesPerFile >= 1
        /\ Supplied(argv, "--queue-size") => options.queueSize >= 1
        /\ Supplied(argv, "--uncompressed-bytes") => options.uncompressedBufferSize >= 1
        /\ Supplied(argv, "--log-container-bytes") => options.logContainerSize > 0
        /\ Supplied(argv, "--compression-threads") => options.compressionThreads >= 1

\* The staging size and container size the command line asks for.
AskedContainer(a) ==
    IF Supplied(a, "--log-container-bytes") THEN LastSupplied(a, "--log-container-bytes")
    ELSE LibDefaultLogContainerSize
AskedBuffer(a) ==
    IF Supplied(a, "--uncompressed-bytes") THEN LastSupplied(a, "--uncompressed-bytes")
    ELSE LibDefaultLogContainerSize * BufferFactor

\* C12: after configuration resolution uncompressedBufferSize >=
\* logContainerSize, for supplied and defaulted values and either order of
\* the two flags; a staging size already at least logContainerSize is
\* left as it is and a smaller one becomes exactly logContainerSize.
C12_BufferClamped ==
    Parsed =>
        /\ options.uncompressedBufferSize >= options.logContainerSize
        /\ options.logContainerSize = AskedContainer(argv)
        /\ options.uncompressedBufferSize =
               IF AskedBuffer(argv) >= AskedContainer(argv)
               THEN AskedBuffer(argv) ELSE AskedContainer(argv)

\* The container size stands before the staging size on the command line
\* and is the larger: the staging size has been raised to it.
C12_Witness ==
    /\ Parsed
    /\ argv = <<"--log-container-bytes", "2", "--uncompressed-bytes", "1">>
    /\ options.uncompressedBufferSize = 2

\* The path of the output directory is not a directory after mkdir: it
\* could not be created, or it exists as something else.
NoOutputDirectory == dirState \in {"existsOther", "failed"}

\* C13: if the output directory neither exists as a directory nor can be
\* created the run is fatal: an error is reported, the exit status is
\* non-zero, no task is launched and no output file is opened.
C13_NoDirectoryNoTask ==
    NoOutputDirectory =>
        /\ threads = <<>>
        /\ \A t \in DOMAIN tpc : ~Launched(t)
        /\ \A t \in DOMAIN files : files[t] = "none"
        /\ mpc = "exited" => FailureOutcome

\* f[0] + ... + f[k - 1].
RECURSIVE SumTo(_, _)
SumTo(f, k) == IF k = 0 THEN 0 ELSE f[k - 1] + SumTo(f, k - 1)
MessagesWrittenTotal ==
    SumTo([i \in DOMAIN results |-> results[i].messagesWritten], options.fileCount)
FramesSubmittedTotal ==
    SumTo([i \in DOMAIN frames |-> Len(frames[i])], options.fileCount)

\* C14: a run in which no task fails reports totalFrames = fileCount x
\* messagesPerFile exactly, which is the sum of messagesWritten over the
\* fileCount result slots and the number of frames submitted to the writers.
C14_TotalFramesExact ==
    SummaryPrinted =>
        LET report == stdout[Len(stdout)]
        IN  /\ \A t \in DOMAIN errors : ~FailureCaptured(t)
            /\ report.totalFrames = options.fileCount * options.messagesPerFile
            /\ report.totalFrames = MessagesWrittenTotal
            /\ report.totalFrames = FramesSubmittedTotal
            /\ report.totalFrames =
                   SumTo([i \in DOMAIN report.writers |-> report.writers[i].messagesWritten],
                         report.filesWritten)

\* Two writers of two frames each have been reported: four frames.
C14_Witness ==
    /\ SummaryPrinted
    /\ options.fileCount = 2
    /\ options.messagesPerFile = 2
    /\ stdout[Len(stdout)].totalFrames = 4
    /\ FramesSubmittedTotal = 4

\* The frames of task t carry the sequence numbers 0, 1, ... in order, no
\* number twice, and none beyond messagesPerFile - 1.
FramesInSequence(t) ==
    /\ Len(frames[t]) <= options.messagesPerFile
    /\ \A k \in 1..Len(frames[t]) : frames[t][k].objectTimeStamp = k - 1
    /\ \A j, k \in 1..Len(frames[t]) :
           j # k => frames[t][j].objectTimeStamp # frames[t][k].objectTimeStamp
\* Capturing the failure was the last thing the thread of t did: the file is
\* as the unwinding left it, neither closed nor removed.
NothingAfterCapture(t) ==
    /\ tpc[t] = "done"
    /\ events[t] # <<>> /\ events[t][Len(events[t])] = "caught"
    /\ \A k \in 1..(Len(events[t]) - 1) : events[t][k] # "caught"
    /\ files[t] = (IF events[t][1] = "open" THEN "unwound" ELSE "none")
C15_FramesState ==
    \A t \in DOMAIN frames :
        /\ FramesInSequence(t)
        /\ FailureCaptured(t) => NothingAfterCapture(t)
\* A step submits at most one frame per task, after those already there,
\* and none for a task that has captured a failure.
C15_FramesStep ==
    \A t \in DOMAIN frames :
        t \in DOMAIN frames' =>
            /\ \/ frames'[t] = frames[t]
               \/ /\ Len(frames'[t]) = Len(frames[t]) + 1
                  /\ SubSeq(frames'[t], 1, Len(frames[t])) = frames[t]
            /\ FailureCaptured(t) =>
                   /\ frames'[t] = frames[t]
                   /\ files'[t] = files[t]
                   /\ events'[t] = events[t]

\* C15: within one task the frames submitted are at every moment a prefix
\* of 0, 1, ..., messagesPerFile - 1 in order, each with time stamp equal to
\* its sequence number and no number twice; once the task has captured a
\* failure it submits no further frame and does nothing to the partly
\* written file.
C15_FramesPrefixUntilFailure == []C15_FramesState /\ [][C15_FramesStep]_vars

\* A task failed on its second frame: one frame stays submitted, the file
\* is left unwound, and its sibling went on to submit both frames.
C15_Witness ==
    /\ Len(threads) = 2
    /\ options.messagesPerFile = 2
    /\ FailureCaptured(0)
    /\ errors[0].what = <<"write failed">>
    /\ Len(frames[0]) = 1
    /\ files[0] = "unwound"
    /\ Len(frames[1]) = 2

\* What the thread of a successful task does, in order, for m frames.
SuccessTrace(m) ==
    <<"open", "start">> \o [k \in 1..m |-> "write"]
        \o <<"close", "stop", "messagesWritten", "secondsTaken">>
IsPrefix(p, s) == Len(p) <= Len(s) /\ SubSeq(s, 1, Len(p)) = p
Happened(t, what) == \E k \in 1..Len(events[t]) : events[t][k] = what
\* The events of t without the capture of a failure that ends them.
BeforeCapture(t) ==
    IF events[t] # <<>> /\ events[t][Len(events[t])] = "caught"
    THEN SubSeq(events[t], 1, Len(events[t]) - 1) ELSE events[t]

\* C16: in every successful task the file is opened and checked, then the
\* timer starts, then all messagesPerFile frames are submitted, then
\* close() returns, then the timer stops, and only then is the result slot
\* written: the timed interval never includes the open, and no result is
\* published for a writer that is not closed.
C16_TaskEventOrder ==
    \A t \in DOMAIN events :
        /\ IsPrefix(BeforeCapture(t), SuccessTrace(options.messagesPerFile))
        /\ Terminated(t) /\ ~FailureCaptured(t) =>
               events[t] = SuccessTrace(options.messagesPerFile)
        /\ Happened(t, "open") <=> files[t] # "none"
        /\ Happened(t, "close") <=> files[t] = "closed"
        /\ Len(frames[t]) = Cardinality({k \in 1..Len(events[t]) : events[t][k] = "write"})
        /\ slotWriters.messagesWritten[t] # <<>> => Happened(t, "messagesWritten")
        /\ slotWriters.secondsTaken[t] # <<>> => Happened(t, "secondsTaken")
        /\ results[t] # [messagesWritten |-> 0, secondsTaken |-> 0] =>
               files[t] = "closed" /\ Happened(t, "stop")

\* A task of two frames has gone through all its steps and returned.
C16_Witness ==
    /\ Len(threads) >= 1
    /\ options.messagesPerFile = 2
    /\ Terminated(0) /\ ~FailureCaptured(0)
    /\ events[0] = <<"open", "start", "write", "write", "close", "stop",
                     "messagesWritten", "secondsTaken">>
    /\ files[0] = "closed"
    /\ results[0].messagesWritten = 2

\* The tasks that have their output file open.
HoldingFile == {t \in DOMAIN files : files[t] = "open"}

\* C17: each task owns its output file: the path is the output directory
\* followed by can_channel_<index+1>.blf, so that the paths of two distinct
\* task indices differ and in no state do two tasks have the same file open.
C17_OwnOutputFile ==
    /\ mpc = "alloc" =>
           \A i, j \in 0..MaxNameIndex :
               i # j => fileName(options, i) # fileName(options, j)
    /\ fileName(options, 0) = <<options.outputDirectory, "/can_channel_", "1", ".blf">>
    /\ fileName(options, 9) = <<options.outputDirectory, "/can_channel_", "1", "0", ".blf">>
    /\ \A t, u \in HoldingFile :
           t # u => fileName(options, t) # fileName(options, u)
    /\ \A t \in DOMAIN errors :
           FailureCaptured(t) /\ errors[t].what[1] = "unable to open output file" =>
               errors[t].what[2] = fileName(options, t)

\* Two tasks have their files open at the same time.
C17_Witness ==
    /\ HoldingFile = {0, 1}
    /\ fileName(options, 0) # fileName(options, 1)

\* C18: for every sequence number i the frame identifier is 0x100 + (i mod
\* 0x700), so it lies in 0x100..0x7FF and repeats with period exactly
\* 0x700, and the payload byte at offset b is (i + b) mod 256; identifier
\* and payload are the same for every task index.
C18_FramePattern ==
    probe # NoProbe /\ probe.out # <<>> =>
        LET f == probe.out[1]
            i == probe.i
        IN  /\ f.id = 256 + (i % 1792)
            /\ f.id \in 256..2047
            /\ makeFrame(probe.idx, i + 1792).id = f.id
            /\ \A k \in 1..1791 : makeFrame(probe.idx, i + k).id # f.id
            /\ DOMAIN f.data = 0..7
            /\ \A b \in 0..7 : f.data[b] = (i + b) % 256
            /\ \A other \in 0..MaxFiles :
                   /\ makeFrame(other, i).id = f.id
                   /\ makeFrame(other, i).data = f.data

\* The frame of sequence number 0x700 has been built: the identifier is
\* back at 0x100 and the payload starts at 0x700 mod 256 = 0.
C18_Witness ==
    /\ probe # NoProbe /\ probe.out # <<>>
    /\ probe.i = 1792
    /\ probe.out[1].id = 256
    /\ probe.out[1].data[1] = 1

\* main has taken overallEnd.
OverallStopped == mpc \in {"scan", "summary"} \/ (mpc = "exited" /\ DOMAIN tpc # {})

\* C19: the overall timer is started before the first task is launched
\* and stopped only after the last task has been joined, so the timed
\* interval of every successful task lies inside the overall interval and
\* no secondsTaken exceeds the reported total wall-clock time.
C19_TaskIntervalInsideOverall ==
    /\ \A t \in DOMAIN tpc :
           Happened(t, "start") => overall.start <= timer[t].start
    /\ OverallStopped =>
           /\ joined = options.fileCount
           /\ \A t \in DOMAIN tpc : Terminated(t)
           /\ \A t \in DOMAIN tpc :
                  ResultRecorded(t) =>
                      /\ overall.start <= timer[t].start
                      /\ timer[t].start <= timer[t].end
                      /\ timer[t].end <= overall.end
                      /\ results[t].secondsTaken <= overall.end - overall.start
    /\ SummaryPrinted =>
           LET report == stdout[Len(stdout)]
           IN  \A t \in DOMAIN report.writers :
                   report.writers[t].secondsTaken <= report.wallClock

\* The summary reports a writer that took time, and a longer total.
C19_Witness ==
    /\ SummaryPrinted
    /\ Len(threads) = 2
    /\ results[0].secondsTaken > 0
    /\ results[0].secondsTaken < overall.end - overall.start
    /\ results[1].secondsTaken = overall.end - overall.start

MicroHappened(what) == \E k \in 1..Len(micro.events) : micro.events[k] = what
\* Every `later` in the events of the micro-benchmark has an `earlier`
\* before it.
MicroBefore(earlier, later) ==
    \A k \in 1..Len(micro.events) :
        micro.events[k] = later => \E j \in 1..(k - 1) : micro.events[j] = earlier

\* C20: in the single-threaded micro-benchmark the writer is closed before
\* the output size is measured; a measured size of 0, which is what a
\* file that cannot be opened for measuring gives, is fatal: the error is
\* reported, the exit status is non-zero and no statistics are printed;
\* statistics are printed and the output file removed only when the
\* measured size is not 0.
C20_MeasuredAfterCloseOrFatal ==
    micro # NoMicro =>
        /\ MicroBefore("close", "measure")
        /\ MicroHappened("measure") => micro.writer # "open"
        /\ MicroHappened("measure") /\ ~MicroHappened("remove") /\ ~micro.disk.exists =>
               micro.bytesWritten = 0
        /\ MicroHappened("measure") /\ micro.bytesWritten = 0 =>
               /\ micro.stdout = <<>>
               /\ ~MicroHappened("report") /\ ~MicroHappened("remove")
               /\ micro.pc = "exited" =>
                      /\ micro.stderr = <<"Failed to measure file size.">>
                      /\ micro.exit # 0 /\ micro.exit # NoStatus
        /\ micro.stdout # <<>> =>
               /\ MicroBefore("measure", "report")
               /\ micro.bytesWritten # 0
               /\ micro.stdout = <<Statistics(micro)>>
               /\ micro.stderr = <<>>
        /\ MicroHappened("remove") =>
               /\ MicroBefore("report", "remove")
               /\ micro.bytesWritten # 0
               /\ micro.exit = 0

\* The output file could not be opened, two frames were handed to the
\* writer, nothing was there to measure and the run ended with the error.
C20_Witness ==
    /\ micro # NoMicro
    /\ micro.pc = "exited"
    /\ micro.writer = "failed" /\ ~micro.disk.exists
    /\ micro.frameCount = 2
    /\ micro.events = <<"open", "write", "write", "close", "measure">>
    /\ micro.bytesWritten = 0
    /\ micro.exit = 1

=============================================================================
